---- MODULE Spec2Model ----
(***************************************************************************)
(* Model of the species-catalog front end:                                 *)
(*   - AnimalSpeedGraph (src/unnamed/part_000): the CSV load effect, the   *)
(*     render effect that draws the bar chart with d3, and the component's *)
(*     mount / unmount lifecycle under React;                              *)
(*   - SpeciesDetailsDialog (src/app/species/details-species-dialog.tsx):  *)
(*     open / view / edit state and the update request to the store.       *)
(*                                                                         *)
(* JavaScript numbers are modelled as exact rationals plus the two special *)
(* values NaN and undefined; floating-point rounding is not modelled.      *)
(***************************************************************************)
EXTENDS Integers, Sequences, FiniteSets

VARIABLES
    phase,          \* "Idle" (constructed, not committed) | "Mounted" | "Unmounted"
    animalData,     \* useState<AnimalDatum[]>([]) : the Dataset
    loads,          \* one entry per run of the load effect: its closure's `cancelled` flag and the state of its csv() promise
    renderPending,  \* a state update is scheduled: React will re-render and re-run the effects whose deps changed
    graphRef,       \* graphRef.current is the div (TRUE) or null (FALSE)
    client,         \* clientWidth / clientHeight of the container div
    surface,        \* children of the container div (graphRef.current.innerHTML)
    lastPass,       \* what the most recent run of the render effect did
    setCalls,       \* calls of setAnimalData, and those made at or after unmount
    resolvedRows,   \* the rows the csv() promise resolved with (<<>> before)
    unhandled,      \* a promise rejection reached no handler
    consoleLog,     \* console.log was called by the then-handler
    open,           \* dialog: open/closed
    isEditing,      \* dialog: edit mode
    userId,         \* dialog prop
    species,        \* dialog prop: the record shown
    formValues,     \* dialog: react-hook-form's current values
    store,          \* the record store's row for species.id
    inFlight,       \* dialog: update requests awaiting the store's answer
    updates,        \* update requests sent to the store, each with the sender
    refreshes,      \* router.refresh() calls
    toasts,         \* toasts shown
    lastEvent       \* the handler of the dialog that ran last

chartVars == <<phase, animalData, loads, renderPending, graphRef, client, surface,
               lastPass, setCalls, resolvedRows, unhandled, consoleLog>>
dialogVars == <<open, isEditing, userId, species, formValues, store, inFlight,
                updates, refreshes, toasts, lastEvent>>
vars == <<chartVars, dialogVars>>

(***************************************************************************)
(* Bounds of the model.                                                    *)
(***************************************************************************)
MaxRows == 2        \* rows in the CSV file
MaxSubmits == 2     \* update requests sent by one dialog

(***************************************************************************)
(* JavaScript numbers: [k, n, d] with k = "num" (the rational n/d, d > 0,  *)
(* in lowest terms), "NaN" or "undefined".                                 *)
(***************************************************************************)
RECURSIVE GCD(_, _)
GCD(a, b) == IF b = 0 THEN a ELSE GCD(b, a % b)

Abs(i) == IF i < 0 THEN -i ELSE i

Rat(n, d) ==
    LET g == GCD(Abs(n), Abs(d))
        s == IF d < 0 THEN -1 ELSE 1
    IN [k |-> "num", n |-> s * (n \div g), d |-> s * (d \div g)]

Num(i) == [k |-> "num", n |-> i, d |-> 1]
NaN == [k |-> "NaN", n |-> 0, d |-> 1]
Undefined == [k |-> "undefined", n |-> 0, d |-> 1]

IsNum(a) == a.k = "num"
\* a + b, a - b, a * b, a / b : NaN as soon as an operand is NaN or undefined
Add(a, b) == IF IsNum(a) /\ IsNum(b) THEN Rat(a.n * b.d + b.n * a.d, a.d * b.d) ELSE NaN
Sub(a, b) == IF IsNum(a) /\ IsNum(b) THEN Rat(a.n * b.d - b.n * a.d, a.d * b.d) ELSE NaN
Mul(a, b) == IF IsNum(a) /\ IsNum(b) THEN Rat(a.n * b.n, a.d * b.d) ELSE NaN
Div(a, b) == IF IsNum(a) /\ IsNum(b) /\ b.n # 0 THEN Rat(a.n * b.d, a.d * b.n) ELSE NaN
\* a >= b and a < b : false as soon as an operand is NaN or undefined
Geq(a, b) == IsNum(a) /\ IsNum(b) /\ a.n * b.d >= b.n * a.d
Lt(a, b) == IsNum(a) /\ IsNum(b) /\ a.n * b.d < b.n * a.d
\* Math.max on two numbers
MathMax(a, b) == IF a >= b THEN a ELSE b

(***************************************************************************)
(* The CSV file and the row conversion of the load effect.                 *)
(***************************************************************************)
Animals == {"Cheetah", "Elephant"}
\* contents of the "Top Speed (km/h)" column: a non-numeric string, a negative, zero,
\* a positive. Speeds are integers here (the nice() model below relies on it);
\* fractional speeds and strings that coerce to Infinity are outside the model.
SpeedStrings == {"abc", "-5", "0", "97"}
Diets == {"Herbivore", "Carnivore", "Omnivore"}
\* contents of the "Diet" column: it is not validated, so a value outside the
\* enumeration can appear
DietStrings == {"Carnivore", "Unknown"}

DSVRowString == [Animal : Animals, TopSpeed : SpeedStrings, Diet : DietStrings]
CsvFiles == UNION {[1..n -> DSVRowString] : n \in 0..MaxRows}

\* unary plus on a string (line 34)
ToNumber(s) ==
    CASE s = "-5" -> Num(-5)
      [] s = "0" -> Num(0)
      [] s = "97" -> Num(97)
      [] OTHER -> NaN

\* Number.prototype.toString (line 145), on the values ToNumber yields
NumberToString(v) ==
    CASE v = Num(-5) -> "-5"
      [] v = Num(0) -> "0"
      [] v = Num(97) -> "97"
      [] OTHER -> "NaN"

\* the row conversion function handed to csv() (lines 32-36)
AnimalDatum(d) == [name |-> d.Animal, speed |-> ToNumber(d.TopSpeed), diet |-> d.Diet]
ParseCsv(file) == [i \in 1..Len(file) |-> AnimalDatum(file[i])]

(***************************************************************************)
(* d3-array max, d3-scale linear (domain, nice, range), band and ordinal.  *)
(***************************************************************************)
\* max(animalData, d => d.speed): NaN and undefined are skipped; undefined when nothing is left
RECURSIVE MaxFrom(_, _, _)
MaxFrom(data, i, best) ==
    IF i > Len(data) THEN best
    ELSE LET v == data[i].speed
         IN MaxFrom(data, i + 1,
                IF IsNum(v) /\ (best = Undefined \/ Lt(best, v)) THEN v ELSE best)
D3Max(data) == MaxFrom(data, 1, Undefined)

RECURSIVE Pow10(_)
Pow10(p) == IF p = 0 THEN 1 ELSE 10 * Pow10(p - 1)
RECURSIVE Log10Floor(_)
Log10Floor(m) == IF m < 10 THEN 0 ELSE 1 + Log10Floor(m \div 10)

TickCount == 10
\* d3-array tickIncrement(0, stop, 10) for an integer stop > 0: the step when it is
\* >= 1, and minus its inverse when it is < 1. error >= sqrt(50), sqrt(10), sqrt(2)
\* are compared on the squares.
TickIncrement(stop) ==
    LET e == Log10Floor(stop)            \* power + 1, since step = stop / 10
        p == Pow10(e)                    \* error = stop / p
        factor == IF stop * stop >= 50 * p * p THEN 10
                  ELSE IF stop * stop >= 10 * p * p THEN 5
                  ELSE IF stop * stop >= 2 * p * p THEN 2
                  ELSE 1
    IN IF e >= 1 THEN factor * Pow10(e - 1) ELSE -(TickCount \div factor)

NiceMaxIter == 10
\* the loop of scale.nice() on [0, stop], integer stop > 0: the stop it sets, or 0
\* when the loop ends without setting the domain
RECURSIVE NiceLoop(_, _, _)
NiceLoop(stop, prestep, maxIter) ==
    IF maxIter = 0 THEN 0
    ELSE LET step == TickIncrement(stop)
         IN IF step = prestep THEN stop
            ELSE IF step > 0
                 THEN NiceLoop(((stop + step - 1) \div step) * step, step, maxIter - 1)
                 ELSE NiceLoop((stop * (-step)) \div (-step), step, maxIter - 1)
Nice(m) == LET s == NiceLoop(m, 0, NiceMaxIter) IN IF s = 0 THEN m ELSE s

\* scaleLinear().domain([0, max(...)]).nice() : the upper end of the domain (lines 79-81).
\* Number(undefined) is NaN; on [0, 0] and [0, NaN] nice() leaves the domain alone;
\* a negative end is niced away from zero.
YDomainMax(data) ==
    LET mx == D3Max(data)
    IN IF ~IsNum(mx) THEN NaN
       ELSE IF mx.n = 0 THEN Num(0)
       ELSE IF mx.n > 0 THEN Num(Nice(mx.n))
       ELSE Num(-Nice(-mx.n))

\* interpolateNumber(a, b)(t)
Interpolate(a, b, t) == Add(Mul(a, Sub(Num(1), t)), Mul(b, t))

\* y(v) for the scale with domain [0, d1] and range [ih, 0] (line 82): a NaN input
\* yields the scale's unknown value (undefined); a domain of width zero normalises
\* every input to 0.5, and a NaN domain to NaN.
YScale(d1, ih, v) ==
    IF ~IsNum(v) THEN Undefined
    ELSE IF ~IsNum(d1) THEN Interpolate(Num(ih), Num(0), NaN)
    ELSE IF d1.n = 0 THEN Interpolate(Num(ih), Num(0), Rat(1, 2))
    ELSE IF d1.n > 0 THEN Interpolate(Num(ih), Num(0), Div(v, d1))
    ELSE Interpolate(Num(0), Num(ih), Div(Sub(v, d1), Sub(Num(0), d1)))

\* scaleBand().domain(names): duplicates are dropped, first occurrence wins
RECURSIVE Dedup(_, _, _)
Dedup(names, i, acc) ==
    IF i > Len(names) THEN acc
    ELSE Dedup(names, i + 1,
               IF \E j \in 1..Len(acc) : acc[j] = names[i] THEN acc ELSE Append(acc, names[i]))
BandDomain(data) == Dedup([i \in 1..Len(data) |-> data[i].name], 1, <<>>)
IndexOf(seq, e) == CHOOSE i \in 1..Len(seq) : seq[i] = e

Padding == Rat(2, 10)     \* .padding(0.2): inner and outer
Align == Rat(1, 2)
\* scaleBand rescale() over the range [0, iw] with n bands (lines 73-76): step,
\* start of the first band and bandwidth
BandStep(n, iw) ==
    LET denom == Add(Sub(Num(n), Padding), Mul(Padding, Num(2)))
    IN Div(Num(iw), IF Geq(Num(1), denom) THEN Num(1) ELSE denom)
BandScale(domain, iw) ==
    LET n == Len(domain)
        step == BandStep(n, iw)
    IN [domain |-> domain,
        step |-> step,
        start |-> Mul(Sub(Num(iw), Mul(step, Sub(Num(n), Padding))), Align),
        bandwidth |-> Mul(step, Sub(Num(1), Padding))]
\* x(name): start + step * i for the i-th name of the domain
XScale(x, name) == Add(x.start, Mul(x.step, Num(IndexOf(x.domain, name) - 1)))

\* scaleOrdinal().domain([...]).range([...]) (lines 85-87)
ColorDomainUnset == <<>>
ColorDomain == <<"Herbivore", "Carnivore", "Omnivore">>
ColorRange == <<"#5AA469", "#C75C5C", "#4D96FF">>
\* calling the scale on d: an input not in the domain is appended to it (implicit domain)
ColorDomainAfter(domain, d) ==
    IF \E i \in 1..Len(domain) : domain[i] = d THEN domain ELSE Append(domain, d)
\* color(d): range[i % range.length] with i the 0-based index of d in the domain after the call
Color(domain, d) ==
    LET dom == ColorDomainAfter(domain, d)
    IN ColorRange[((IndexOf(dom, d) - 1) % Len(ColorRange)) + 1]
\* the domain of the color scale after the fills of bars 1..k were computed
RECURSIVE ColorDomainAt(_, _)
ColorDomainAt(data, k) ==
    IF k = 0 THEN ColorDomain ELSE ColorDomainAfter(ColorDomainAt(data, k - 1), data[k].diet)

(***************************************************************************)
(* The render effect (lines 46-173).                                       *)
(***************************************************************************)
MinWidth == 600
MinHeight == 400
MarginTop == 70
MarginRight == 60
MarginBottom == 80
MarginLeft == 100
DefaultWidth == 800
DefaultHeight == 500
LabelGap == 6

\* the container is styled width 100%, height 500: its width follows the window
ClientSizes == {[w |-> 320, h |-> 500], [w |-> 1000, h |-> 500]}

\* graphRef.current?.clientWidth ?? 800, graphRef.current?.clientHeight ?? 500
ContainerSize(ref, size) ==
    IF ref THEN size ELSE [w |-> DefaultWidth, h |-> DefaultHeight]

ChartWidth(size) == MathMax(size.w, MinWidth)
ChartHeight(size) == MathMax(size.h, MinHeight)
InnerWidth(size) == ChartWidth(size) - MarginLeft - MarginRight
InnerHeight(size) == ChartHeight(size) - MarginTop - MarginBottom

BarHeightSwapped(ih, yv) == Sub(yv, Num(ih))
\* .attr("height", d => innerHeight - y(d.speed)) (line 132)
BarHeight(ih, yv) == Sub(Num(ih), yv)

\* one rect.bar per datum of the data join (lines 124-133), given the scales:
\* the band scale, the upper end of the y domain and the color domain before the
\* call; datum is the bound __data__
Bar(d, x, yMax, colorDomain, ih) ==
    LET yv == YScale(yMax, ih, d.speed)
    IN [datum |-> d,
        x |-> XScale(x, d.name),
        y |-> yv,
        width |-> x.bandwidth,
        height |-> BarHeight(ih, yv),
        fill |-> Color(colorDomain, d.diet)]

\* one text.bar-label per datum (lines 136-145)
BarLabel(d, x, yMax, ih) ==
    [x |-> Add(XScale(x, d.name), Div(x.bandwidth, Num(2))),
     y |-> Sub(YScale(yMax, ih, d.speed), Num(LabelGap)),
     text |-> NumberToString(d.speed)]

\* const diets = ["Herbivore", "Carnivore", "Omnivore"] (line 149)
LegendDiets == <<"Herbivore", "Carnivore", "Omnivore">>
\* one legend item per diet, colored after the bars (lines 147-162)
LegendItem(colorDomain, diet) == [fill |-> Color(colorDomain, diet), text |-> diet]

\* the svg element the effect appends and fills (lines 65-172)
DrawWith(data, size, x, yMax, ih) ==
    [width |-> ChartWidth(size),
     height |-> ChartHeight(size),
     translate |-> <<MarginLeft, MarginTop>>,
     xDomain |-> x.domain,
     yDomain |-> <<Num(0), yMax>>,
     yRange |-> <<ih, 0>>,
     bars |-> [i \in 1..Len(data) |-> Bar(data[i], x, yMax, ColorDomainAt(data, i - 1), ih)],
     labels |-> [i \in 1..Len(data) |-> BarLabel(data[i], x, yMax, ih)],
     legend |-> [i \in 1..Len(LegendDiets) |->
                    LegendItem(ColorDomainAt(data, Len(data)), LegendDiets[i])],
     title |-> "Animal Speeds by Diet"]

DrawChart(data, size) ==
    DrawWith(data, size, BandScale(BandDomain(data), InnerWidth(size)),
             YDomainMax(data), InnerHeight(size))

ClearSurfaceKeepsContent(ref, html) == html
\* if (graphRef.current) graphRef.current.innerHTML = "" (lines 48-50)
ClearSurface(ref, html) == IF ref THEN <<>> ELSE html

\* select(graphRef.current!).append("svg"): a selection of null appends nothing
AppendSvg(ref, html, svg) == IF ref THEN Append(html, svg) ELSE html

\* the body of the render effect: the container's new content, and whether the
\* scales were built and the drawing step was run
RenderEffectNoGuard(ref, html, data, size) ==
    [html |-> AppendSvg(ref, ClearSurface(ref, html), DrawChart(data, ContainerSize(ref, size))),
     scales |-> TRUE, drew |-> TRUE]

RenderEffect(ref, html, data, size) ==
    IF Len(data) = 0
    THEN [html |-> ClearSurface(ref, html), scales |-> FALSE, drew |-> FALSE]
    ELSE [html |-> AppendSvg(ref, ClearSurface(ref, html),
                             DrawChart(data, ContainerSize(ref, size))),
          scales |-> TRUE, drew |-> TRUE]

(***************************************************************************)
(* AnimalSpeedGraph under React: mount, the two effects, unmount.          *)
(***************************************************************************)
NoPass == [ran |-> FALSE, data |-> <<>>, client |-> [w |-> 0, h |-> 0],
           scales |-> FALSE, drew |-> FALSE, repeat |-> FALSE, same |-> FALSE]

InitChart ==
    /\ phase = "Idle"
    /\ animalData = <<>>
    /\ loads = <<>>
    /\ renderPending = FALSE
    /\ graphRef = FALSE
    /\ client \in ClientSizes
    /\ surface = <<>>
    /\ lastPass = NoPass
    /\ setCalls = [total |-> 0, afterUnmount |-> 0]
    /\ resolvedRows = <<>>
    /\ unhandled = FALSE
    /\ consoleLog = FALSE

\* dependency arrays: [] for the load effect (line 44), [animalData] for the
\* render effect (line 173)
LoadEffectDepsChanged(mounting, dataChanged) == mounting \/ dataChanged
LoadEffectRuns(mounting, dataChanged) == mounting
RenderEffectRuns(mounting, dataChanged) == mounting \/ dataChanged

\* the cleanup of the load effect: cancelled = true in the closure of its last run (lines 41-43)
LoadCleanup(ls) ==
    IF Len(ls) = 0 THEN ls ELSE [ls EXCEPT ![Len(ls)].cancelled = TRUE]

\* the load effect: let cancelled = false; csv(...).then(...) (lines 30-39)
LoadEffect(ls) == Append(ls, [cancelled |-> FALSE, promise |-> "pending"])

\* one run of the render effect on the current Dataset and container
RunRenderEffect(ref) ==
    \E r \in {RenderEffect(ref, surface, animalData, client)} :
       /\ surface' = r.html
       /\ lastPass' = [ran |-> TRUE, data |-> animalData, client |-> client,
                       scales |-> r.scales, drew |-> r.drew,
                       repeat |-> lastPass.ran /\ lastPass.data = animalData
                                               /\ lastPass.client = client,
                       same |-> r.html = surface]

\* React's commit: the effects whose dependencies changed are cleaned up and run, in order
RunEffects(ref, mounting, dataChanged) ==
    /\ loads' = IF LoadEffectRuns(mounting, dataChanged)
                THEN LoadEffect(LoadCleanup(loads))
                ELSE loads
    /\ IF RenderEffectRuns(mounting, dataChanged)
       THEN RunRenderEffect(ref)
       ELSE UNCHANGED <<surface, lastPass>>

\* first commit of the component: the ref is attached, then both effects run
Mount ==
    /\ phase = "Idle"
    /\ phase' = "Mounted"
    /\ graphRef' = TRUE
    /\ RunEffects(TRUE, TRUE, FALSE)
    /\ UNCHANGED <<animalData, renderPending, client, setCalls, resolvedRows,
                   unhandled, consoleLog, dialogVars>>

\* the window is resized: the container's width changes; no effect depends on it
Resize ==
    /\ phase = "Mounted"
    /\ \E size \in ClientSizes \ {client} : client' = size
    /\ UNCHANGED <<phase, animalData, loads, renderPending, graphRef, surface,
                   lastPass, setCalls, resolvedRows, unhandled, consoleLog, dialogVars>>

\* setAnimalData(rows): a new array schedules a re-render of a mounted component;
\* React drops an update of an unmounted one
SetAnimalData(rows) ==
    /\ setCalls' = [total |-> setCalls.total + 1,
                    afterUnmount |-> setCalls.afterUnmount
                                     + (IF phase = "Unmounted" THEN 1 ELSE 0)]
    /\ IF phase = "Mounted"
       THEN animalData' = rows /\ renderPending' = TRUE
       ELSE UNCHANGED <<animalData, renderPending>>

\* (rows) => { if (!cancelled) setAnimalData(rows); console.log(...) } (lines 36-39)
ThenHandlerNoCancelCheck(i, rows) ==
    /\ SetAnimalData(rows)
    /\ consoleLog' = TRUE

ThenHandlerPartialRows(i, rows) ==
    /\ IF ~loads[i].cancelled
       THEN SetAnimalData(SubSeq(rows, 1, Len(rows) - 1))
       ELSE UNCHANGED <<animalData, renderPending, setCalls>>
    /\ consoleLog' = TRUE

ThenHandler(i, rows) ==
    /\ IF ~loads[i].cancelled
       THEN SetAnimalData(rows)
       ELSE UNCHANGED <<animalData, renderPending, setCalls>>
    /\ consoleLog' = TRUE

\* the csv() promise of load i is fulfilled with the parsed rows of the file
FetchResolve ==
    \E i \in 1..Len(loads) :
        /\ loads[i].promise = "pending"
        /\ loads' = [loads EXCEPT ![i].promise = "resolved"]
        /\ \E file \in CsvFiles :
               /\ resolvedRows' = ParseCsv(file)
               /\ ThenHandler(i, ParseCsv(file))
        /\ UNCHANGED <<phase, graphRef, client, surface, lastPass, unhandled, dialogVars>>

\* the csv() promise of load i is rejected (network error, HTTP status): .then() was
\* given no rejection handler and no .catch() follows (lines 36-39)
FetchReject ==
    \E i \in 1..Len(loads) :
        /\ loads[i].promise = "pending"
        /\ loads' = [loads EXCEPT ![i].promise = "rejected"]
        /\ unhandled' = TRUE
        /\ UNCHANGED <<phase, animalData, renderPending, graphRef, client, surface,
                       lastPass, setCalls, resolvedRows, consoleLog, dialogVars>>

\* the re-render React runs after setAnimalData: effects depending on animalData run
Rerender ==
    /\ phase = "Mounted"
    /\ renderPending
    /\ renderPending' = FALSE
    /\ RunEffects(graphRef, FALSE, TRUE)
    /\ UNCHANGED <<phase, animalData, graphRef, client, setCalls, resolvedRows,
                   unhandled, consoleLog, dialogVars>>

\* the component is removed: effect cleanups run, the ref is detached, a scheduled
\* re-render is dropped
Unmount ==
    /\ phase = "Mounted"
    /\ phase' = "Unmounted"
    /\ loads' = LoadCleanup(loads)
    /\ graphRef' = FALSE
    /\ renderPending' = FALSE
    /\ UNCHANGED <<animalData, client, surface, lastPass, setCalls, resolvedRows,
                   unhandled, consoleLog, dialogVars>>

\* React invokes the render effect again on unchanged state (Fast Refresh, see the
\* comment at line 47); used by SpecRender only
RerunRenderEffect ==
    /\ phase = "Mounted"
    /\ ~renderPending
    /\ RunRenderEffect(graphRef)
    /\ UNCHANGED <<phase, animalData, loads, renderPending, graphRef, client, setCalls,
                   resolvedRows, unhandled, consoleLog, dialogVars>>

(***************************************************************************)
(* SpeciesDetailsDialog (src/app/species/details-species-dialog.tsx).      *)
(***************************************************************************)
Users == {"alice", "bob"}
\* what can be typed into the scientific name input
NameInputs == {"Cavia", " Cavia ", "Felis", "  "}

\* String.prototype.trim on the inputs above
Trim(str) ==
    CASE str = " Cavia " -> "Cavia"
      [] str = "  " -> ""
      [] OTHER -> str

\* speciesSchema: scientific_name is trimmed and must keep at least one character (lines 31-35)
SchemaAccepts(values) == Trim(values.scientific_name) # ""
SchemaParse(values) == [scientific_name |-> Trim(values.scientific_name)]

\* const isAuthor = userId === species.author (line 67)
IsAuthor == userId = species.author

\* defaultValues, rebuilt from the species prop on every render (lines 70-77)
DefaultValues == [scientific_name |-> species.scientific_name]

InitDialog ==
    /\ open = FALSE
    /\ isEditing = FALSE
    /\ userId \in Users
    /\ species \in [id : {1}, author : Users, scientific_name : {"Cavia"}]
    /\ formValues = [scientific_name |-> species.scientific_name]
    /\ store = [scientific_name |-> species.scientific_name]
    /\ inFlight = <<>>
    /\ updates = <<>>
    /\ refreshes = [called |-> 0, applied |-> 0]
    /\ toasts = [error |-> 0, success |-> 0]
    /\ lastEvent = "none"

\* the "Learn More" trigger: onOpenChange(true) (lines 140-143)
OpenDialog ==
    /\ ~open
    /\ open' = TRUE
    /\ lastEvent' = "open"
    /\ UNCHANGED <<isEditing, userId, species, formValues, store, inFlight, updates,
                   refreshes, toasts, chartVars>>

\* Close button, Escape or a click outside: onOpenChange(false); isEditing is kept
CloseDialog ==
    /\ open
    /\ open' = FALSE
    /\ lastEvent' = "close"
    /\ UNCHANGED <<isEditing, userId, species, formValues, store, inFlight, updates,
                   refreshes, toasts, chartVars>>

\* {isAuthor && <Button onClick={startEditing}>}: rendered in view mode of an open
\* dialog, for the author only (lines 152, 277, 335)
EditButtonForAnyUser == open /\ ~isEditing
EditButtonRendered == open /\ ~isEditing /\ IsAuthor

\* startEditing (lines 126-129)
StartEditing ==
    /\ EditButtonRendered
    /\ isEditing' = TRUE
    /\ lastEvent' = "startEditing"
    /\ UNCHANGED <<open, userId, species, formValues, store, inFlight, updates,
                   refreshes, toasts, chartVars>>

\* the form is rendered in edit mode of an open dialog (line 152)
FormRendered == open /\ isEditing

\* typing into the scientific name input
EditField ==
    /\ FormRendered
    /\ \E v \in NameInputs \ {formValues.scientific_name} :
           formValues' = [formValues EXCEPT !.scientific_name = v]
    /\ lastEvent' = "input"
    /\ UNCHANGED <<open, isEditing, userId, species, store, inFlight, updates,
                   refreshes, toasts, chartVars>>

\* "Update Species": form.handleSubmit validates with zod, and onSubmit sends the
\* update and awaits the answer (lines 86-99, 155); invalid values send nothing
Submit ==
    /\ FormRendered
    /\ Len(updates) < MaxSubmits
    /\ SchemaAccepts(formValues)
    /\ updates' = Append(updates, [by |-> userId, input |-> SchemaParse(formValues)])
    /\ inFlight' = Append(inFlight, SchemaParse(formValues))
    /\ lastEvent' = "submit"
    /\ UNCHANGED <<open, isEditing, userId, species, formValues, store, refreshes,
                   toasts, chartVars>>

\* the error branch without its early return: the toast, then the rest of onSubmit
UpdateFailsFallsThrough ==
    /\ Len(inFlight) > 0
    /\ inFlight' = Tail(inFlight)
    /\ toasts' = [toasts EXCEPT !.error = @ + 1]
    /\ isEditing' = FALSE
    /\ formValues' = Head(inFlight)
    /\ refreshes' = [refreshes EXCEPT !.called = @ + 1]
    /\ lastEvent' = "error"
    /\ UNCHANGED <<open, userId, species, store, updates, chartVars>>

\* the store answers with an error: toast and return (lines 102-108)
UpdateFails ==
    /\ Len(inFlight) > 0
    /\ inFlight' = Tail(inFlight)
    /\ toasts' = [toasts EXCEPT !.error = @ + 1]
    /\ lastEvent' = "error"
    /\ UNCHANGED <<open, isEditing, userId, species, formValues, store, updates,
                   refreshes, chartVars>>

\* the store applied the update: leave edit mode, reset the form to the submitted
\* values, refresh the route, toast (lines 111-123)
UpdateSucceeds ==
    /\ Len(inFlight) > 0
    /\ inFlight' = Tail(inFlight)
    /\ store' = Head(inFlight)
    /\ isEditing' = FALSE
    /\ formValues' = Head(inFlight)
    /\ refreshes' = [refreshes EXCEPT !.called = @ + 1]
    /\ toasts' = [toasts EXCEPT !.success = @ + 1]
    /\ lastEvent' = "success"
    /\ UNCHANGED <<open, userId, species, updates, chartVars>>

\* router.refresh() completes: the server component passes the stored row as the species prop
RouteRefreshed ==
    /\ refreshes.applied < refreshes.called
    /\ refreshes' = [refreshes EXCEPT !.applied = @ + 1]
    /\ species' = [species EXCEPT !.scientific_name = store.scientific_name]
    /\ lastEvent' = "refreshed"
    /\ UNCHANGED <<open, isEditing, userId, formValues, store, inFlight, updates,
                   toasts, chartVars>>

\* handleCancel (lines 131-137)
HandleCancel ==
    /\ FormRendered
    /\ formValues' = DefaultValues
    /\ isEditing' = FALSE
    /\ lastEvent' = "cancel"
    /\ UNCHANGED <<open, userId, species, store, inFlight, updates, refreshes,
                   toasts, chartVars>>

(***************************************************************************)
(* Specifications.                                                         *)
(***************************************************************************)
\* the dialog as constructed for one user and one species, not operated
DialogAtRest ==
    /\ InitDialog
    /\ userId = "alice"
    /\ species.author = "alice"

Init == InitChart /\ DialogAtRest

Next ==
    \/ Mount
    \/ Resize
    \/ FetchResolve
    \/ FetchReject
    \/ Rerender
    \/ Unmount

\* the chart component as the source runs it
Spec == Init /\ [][Next]_vars

NextRender ==
    \/ Mount
    \/ Resize
    \/ FetchResolve
    \/ Rerender
    \/ RerunRenderEffect

\* the render passes of a chart component that stays mounted, with React re-invoking
\* the render effect
SpecRender == Init /\ [][NextRender]_vars

ChartAtRest == InitChart /\ client.w = 1000

InitDialogSpec == InitDialog /\ ChartAtRest

NextDialog ==
    \/ OpenDialog
    \/ CloseDialog
    \/ StartEditing
    \/ EditField
    \/ Submit
    \/ UpdateFails
    \/ UpdateSucceeds
    \/ RouteRefreshed
    \/ HandleCancel

\* the dialog
SpecDialog == InitDialogSpec /\ [][NextDialog]_vars

(***************************************************************************)
(* Properties of the chart component.                                      *)
(***************************************************************************)
Pending(i) == loads[i].promise = "pending"
Resolved(i) == loads[i].promise = "resolved"
Rejected(i) == loads[i].promise = "rejected"

\* C1: when the view is unmounted before the CSV fetch resolves, setAnimalData is
\* not called at or after the unmount: the number of state mutations after unmount
\* is zero, and an unmounted view whose fetch is still pending has seen no call.
C1_NoSetAfterUnmount ==
    /\ setCalls.afterUnmount = 0
    /\ (phase = "Unmounted" /\ \E i \in 1..Len(loads) : Pending(i)) => setCalls.total = 0
    /\ (phase = "Unmounted" /\ setCalls.total = 0) => animalData = <<>>

\* the fetch resolved after the unmount: its then-handler ran and made no call
C1_Witness ==
    /\ phase = "Unmounted"
    /\ Len(loads) = 1 /\ Resolved(1) /\ loads[1].cancelled
    /\ Len(resolvedRows) > 0
    /\ consoleLog
    /\ setCalls.total = 0

\* C2: when the CSV fetch fails, the loader catches the failure (no rejection is
\* left unhandled), the Dataset stays empty and no chart is drawn.
C2_LoadFailureCaught ==
    (\E i \in 1..Len(loads) : Rejected(i)) =>
        /\ ~unhandled
        /\ animalData = <<>>
        /\ surface = <<>>

\* C3: a render pass run while the Dataset is empty builds no scale and draws
\* nothing: it leaves the surface empty.
C3_EmptyPassDrawsNothing ==
    (lastPass.ran /\ Len(lastPass.data) = 0) =>
        /\ ~lastPass.scales
        /\ ~lastPass.drew
        /\ surface = <<>>

\* the pass after a load that returned zero rows
C3_Witness ==
    /\ phase = "Mounted"
    /\ Len(loads) = 1 /\ Resolved(1)
    /\ setCalls.total = 1
    /\ ~renderPending
    /\ lastPass.ran /\ Len(lastPass.data) = 0

\* the svg on the surface and its plotting height
Svg == surface[1]
PlotHeight == Svg.yRange[1]

\* C4: re-rendering is not additive and is idempotent: after any sequence of render
\* passes the surface holds the output of the last pass only (no svg after a pass on
\* an empty Dataset, otherwise one svg with one bar and one bar label per Record, in
\* order), and a pass on the same Dataset and container size as the pass before it
\* leaves exactly the primitives that pass had drawn.
C4_RenderIdempotent ==
    /\ Len(surface) <= 1
    /\ lastPass.ran =>
          IF Len(lastPass.data) = 0
          THEN surface = <<>>
          ELSE /\ Len(surface) = 1
               /\ Len(Svg.bars) = Len(lastPass.data)
               /\ Len(Svg.labels) = Len(lastPass.data)
               /\ \A i \in 1..Len(lastPass.data) :
                      /\ Svg.bars[i].datum = lastPass.data[i]
                      /\ Svg.labels[i].text = NumberToString(lastPass.data[i].speed)
    /\ lastPass.repeat => lastPass.same

\* the same two-row Dataset was rendered twice in a row at the same size
C4_Witness ==
    /\ lastPass.repeat
    /\ Len(lastPass.data) = 2
    /\ Len(surface) = 1

\* C5: for every non-empty Dataset the y scale maps 0 to the bottom edge of the
\* plotting area (innerHeight) and the upper end of its domain to the top edge (0),
\* so a Record whose measurement is 0 gets a bar of height 0 at the baseline.
C5_ZeroAtBaseline ==
    lastPass.drew =>
        /\ YScale(Svg.yDomain[2], PlotHeight, Num(0)) = Num(PlotHeight)
        /\ YScale(Svg.yDomain[2], PlotHeight, Svg.yDomain[2]) = Num(0)
        /\ \A i \in 1..Len(Svg.bars) :
               Svg.bars[i].datum.speed = Num(0) =>
                   /\ Svg.bars[i].height = Num(0)
                   /\ Svg.bars[i].y = Num(PlotHeight)

\* C6 as stated: for every Record of every Dataset the loader can produce, the
\* bar's height is innerHeight minus the y scale applied to the measurement, and
\* it is >= 0.
C6_HeightNonNegative ==
    lastPass.drew =>
        \A i \in 1..Len(Svg.bars) :
            /\ Svg.bars[i].height
                   = Sub(Num(PlotHeight),
                         YScale(Svg.yDomain[2], PlotHeight, Svg.bars[i].datum.speed))
            /\ Geq(Svg.bars[i].height, Num(0))

\* C6 as amended: the height is innerHeight minus the y scale applied to the
\* measurement (NaN when the measurement is NaN), and it is >= 0 for every Record
\* whose measurement is a number >= 0.
C6_HeightNonNegativeForNonNegative ==
    lastPass.drew =>
        \A i \in 1..Len(Svg.bars) :
            /\ Svg.bars[i].height
                   = Sub(Num(PlotHeight),
                         YScale(Svg.yDomain[2], PlotHeight, Svg.bars[i].datum.speed))
            /\ Geq(Svg.bars[i].datum.speed, Num(0)) => Geq(Svg.bars[i].height, Num(0))
            /\ ~IsNum(Svg.bars[i].datum.speed) => Svg.bars[i].height = NaN

\* a chart of a negative and a positive measurement: the positive one has a bar of
\* positive height
C6_Witness ==
    /\ lastPass.drew
    /\ Len(Svg.bars) = 2
    /\ Svg.bars[1].datum.speed = Num(-5)
    /\ Svg.bars[2].datum.speed = Num(97)
    /\ Geq(Svg.bars[2].height, Num(1))

\* C7: exactly one CSV fetch is started per mount: none before the mount, one from
\* the mount on, whatever happens later; so at most one fetch is in flight.
C7_OneFetchPerMount ==
    /\ phase = "Idle" => Len(loads) = 0
    /\ phase # "Idle" => Len(loads) = 1
    /\ Cardinality({i \in 1..Len(loads) : Pending(i)}) <= 1

\* the fetch resolved, the Dataset changed and the view re-rendered: still one fetch
C7_Witness ==
    /\ phase = "Mounted"
    /\ setCalls.total = 1
    /\ ~renderPending
    /\ lastPass.drew
    /\ Len(loads) = 1

\* C8: the Dataset is empty at mount and is written at most once, wholesale, by the
\* step that fulfils the fetch; every render pass observes the empty Dataset or the
\* complete sequence the fetch resolved with; nothing leaves Unmounted.
C8_DatasetWrittenOnce ==
    /\ [](phase = "Idle" => animalData = <<>>)
    /\ [](setCalls.total <= 1)
    /\ [](animalData \in {<<>>, resolvedRows})
    /\ [](lastPass.data \in {<<>>, resolvedRows})
    /\ [][(animalData' # animalData \/ setCalls' # setCalls) =>
              /\ \E i \in 1..Len(loads) : Pending(i) /\ loads'[i].promise = "resolved"
              /\ animalData = <<>>
              /\ animalData' = resolvedRows']_vars
    /\ [][phase = "Unmounted" => phase' = "Unmounted"]_vars

\* a render pass observed the two rows the fetch resolved with
C8_Witness ==
    /\ setCalls.total = 1
    /\ Len(resolvedRows) = 2
    /\ lastPass.ran /\ lastPass.data = resolvedRows

\* the color each diet of the enumeration is given (lines 86-87)
DietColor(diet) ==
    CASE diet = "Herbivore" -> "#5AA469"
      [] diet = "Carnivore" -> "#C75C5C"
      [] diet = "Omnivore" -> "#4D96FF"

\* C9: a bar whose diet is outside the enumeration is filled with a defined color,
\* one of the range; a bar whose diet is in the enumeration is filled with the fixed
\* color of that diet, the one the legend shows, whatever was colored before it.
C9_ColorFallback ==
    lastPass.drew =>
        /\ \A i \in 1..Len(Svg.bars) :
               IF Svg.bars[i].datum.diet \in Diets
               THEN Svg.bars[i].fill = DietColor(Svg.bars[i].datum.diet)
               ELSE Svg.bars[i].fill \in {ColorRange[j] : j \in 1..Len(ColorRange)}
        /\ Len(Svg.legend) = Len(LegendDiets)
        /\ \A j \in 1..Len(Svg.legend) :
               /\ Svg.legend[j].text = LegendDiets[j]
               /\ Svg.legend[j].fill = DietColor(LegendDiets[j])

\* a bar of the enumeration colored after a bar outside it
C9_Witness ==
    /\ lastPass.drew
    /\ Len(Svg.bars) = 2
    /\ Svg.bars[1].datum.diet = "Unknown"
    /\ Svg.bars[2].datum.diet = "Carnivore"
    /\ Svg.bars[2].fill = "#C75C5C"

(***************************************************************************)
(* Properties of the dialog.                                               *)
(***************************************************************************)
\* C10: edit mode is gated by authorship: isEditing only if userId equals
\* species.author, so a non-author never reaches edit mode, and every update request
\* sent to the store was sent by the author.
C10_EditGatedByAuthor ==
    /\ isEditing => IsAuthor
    /\ \A k \in 1..Len(updates) : updates[k].by = species.author
    /\ ~IsAuthor => (Len(updates) = 0 /\ Len(inFlight) = 0)

\* a non-author has the dialog open in view mode
C10_Witness ==
    /\ open
    /\ ~IsAuthor
    /\ ~isEditing

\* C11: the answer to a submit whose update failed changes nothing of the dialog but
\* the error toast: isEditing, the form values, the open flag, the species prop, the
\* stored row and the refresh count are as before, so a form in edit mode stays in
\* edit mode with what was typed.  The answer to a submit whose update succeeded
\* sets isEditing to FALSE, sets the form values to the submitted (zod-processed)
\* values and calls the route refresh once; no other step calls the refresh, and
\* isEditing goes from TRUE to FALSE in no step but a successful answer or Cancel.
\* Cancel sets isEditing to FALSE and the form values to the values of the species
\* prop, and calls no refresh.
C11_SubmitOutcomesAndCancel ==
    [][ /\ lastEvent' = "error" =>
             /\ isEditing' = isEditing
             /\ formValues' = formValues
             /\ refreshes' = refreshes
             /\ UNCHANGED <<open, species, store>>
        /\ lastEvent' = "success" =>
             /\ isEditing' = FALSE
             /\ formValues' = Head(inFlight)
             /\ Head(inFlight) \in {u.input : u \in {updates[i] : i \in 1..Len(updates)}}
             /\ refreshes'.called = refreshes.called + 1
        /\ refreshes'.called # refreshes.called => lastEvent' = "success"
        /\ (isEditing /\ ~isEditing') => lastEvent' \in {"success", "cancel"}
        /\ lastEvent' = "cancel" =>
             /\ isEditing' = FALSE
             /\ formValues' = [scientific_name |-> species.scientific_name]
             /\ refreshes' = refreshes
      ]_vars

\* an error answer has just arrived at a form in edit mode whose typed values differ
\* from the species prop: the dialog is still editing and the values are still there
C11_Witness ==
    /\ lastEvent = "error"
    /\ toasts.error > 0
    /\ open
    /\ isEditing
    /\ formValues # DefaultValues
    /\ refreshes.called = 0

====
